---- MODULE Spec2Model ----
(***************************************************************************)
(* Model of crates/auto_update2/src/auto_update.rs: the AutoUpdater        *)
(* entity (status, pending_poll), the update cycle it spawns, the polling  *)
(* loop driven by the auto_update setting, and the "should show update     *)
(* notification" key of the key-value store.                               *)
(*                                                                         *)
(* Every action is one uninterrupted run of foreground (or background)     *)
(* code: from one .await that suspends to the next.  Entity updates        *)
(* (this.update(..)) are synchronous, so everything a task does between    *)
(* two awaits is one step.                                                 *)
(***************************************************************************)
EXTENDS Integers, Sequences, FiniteSets, TLC

\* ---------------------------------------------------------------- bounds
\* Largest major/minor/patch component of a version the server may send.
MaxVer == 1
\* Largest number of notify_of_any_new_update tasks that are running or
\* have shown their notification.
MaxWorkspaces == 2
\* Largest number of "write flag" background tasks waiting to run.
MaxPendingWrites == 1

\* ------------------------------------------------------------ data model
AutoUpdateStatus ==
    {"Idle", "Checking", "Downloading", "Installing", "Updated", "Errored"}

ReleaseChannel == {"Dev", "Nightly", "Preview", "Stable"}

\* Option<T>: None, or Some(x).
None == <<>>

Some(x) == <<x>>

\* A string is a sequence of one-character strings.
Digits == <<"0", "1", "2", "3", "4", "5", "6", "7", "8", "9">>

DigitChar(n) == Digits[n + 1]

IsDigit(c) == \E i \in 1..Len(Digits) : Digits[i] = c

DigitValue(c) == (CHOOSE i \in 1..Len(Digits) : Digits[i] = c) - 1

\* SemanticVersion { major, minor, patch }
SemanticVersion(major, minor, patch) ==
    [major |-> major, minor |-> minor, patch |-> patch]

\* format!("{major}.{minor}.{patch}") for one-digit components.
VersionString(major, minor, patch) ==
    <<DigitChar(major), ".", DigitChar(minor), ".", DigitChar(patch)>>

\* str::split('.'): the pieces of s between the dots.
RECURSIVE SplitDots(_)
SplitDots(s) ==
    IF \A i \in 1..Len(s) : s[i] # "."
    THEN <<s>>
    ELSE LET d == CHOOSE i \in 1..Len(s) :
                      s[i] = "." /\ \A j \in 1..(i - 1) : s[j] # "."
         IN  <<SubSeq(s, 1, d - 1)>> \o SplitDots(SubSeq(s, d + 1, Len(s)))

\* str::parse::<usize>() of one piece: digits only, at least one.
IsNumber(p) == Len(p) > 0 /\ \A i \in 1..Len(p) : IsDigit(p[i])

RECURSIVE NumberValue(_)
NumberValue(p) ==
    IF Len(p) = 0 THEN 0
    ELSE 10 * NumberValue(SubSeq(p, 1, Len(p) - 1)) + DigitValue(p[Len(p)])

\* release.version.parse::<SemanticVersion>(): Ok or Err.
ParsesAsSemanticVersion(s) ==
    LET parts == SplitDots(s)
    IN  Len(parts) = 3 /\ \A i \in 1..3 : IsNumber(parts[i])

ParseSemanticVersion(s) ==
    LET parts == SplitDots(s)
    IN  SemanticVersion(NumberValue(parts[1]), NumberValue(parts[2]),
                        NumberValue(parts[3]))

\* Ord of SemanticVersion: major, then minor, then patch.
VersionLess(a, b) ==
    \/ a.major < b.major
    \/ a.major = b.major /\ a.minor < b.minor
    \/ a.major = b.major /\ a.minor = b.minor /\ a.patch < b.patch

VersionLessOrEqual(a, b) == VersionLess(a, b) \/ a = b

\* ----------------------------------------------------------------- inputs
\* The version of the running build (ZED_APP_VERSION): the release
\* versions lie on both sides of it in every component it allows.
AppVersions == {SemanticVersion(0, 1, 0)}

\* Commit identifiers (AppCommitSha and nightly release versions).
ShaA == <<"a">>
ShaB == <<"b">>

\* AppCommitSha global: absent, or the sha of the running build.
AppCommitShas == {None, Some(ShaA)}

\* Version strings a release descriptor may carry: well-formed semantic
\* versions, commit identifiers, and malformed versions.
ReleaseVersions ==
    {VersionString(a, b, c) : a, b, c \in 0..MaxVer}
        \cup {ShaA, ShaB, <<"1", ".", "0">>, <<"1", ".", "a", ".", "0">>}

\* What serde_json::from_slice finds in the response body: a JsonRelease
\* or a body that does not deserialize.
Malformed == [valid |-> FALSE, version |-> <<>>]

JsonRelease(version) == [valid |-> TRUE, version |-> version]

Bodies == {JsonRelease(v) : v \in ReleaseVersions} \cup {Malformed}

\* ------------------------------------------------------------------ state
VARIABLES
    status,              \* AutoUpdater.status
    pending_poll,        \* AutoUpdater.pending_poll: None or Some(task)
    current_version,     \* AutoUpdater.current_version
    RELEASE_CHANNEL,     \* the process-wide release channel
    app_commit_sha,      \* the AppCommitSha global: None or Some(sha)
    auto_update,         \* AutoUpdateSetting.0
    update_subscription, \* init's update_subscription: None or Some(loop)
    pc,                  \* the await at which the cycle task is suspended
    response,            \* body of the release response being read
    should_download,     \* update's local should_download, once decided
    temp_dir,            \* TRUE while the cycle's TempDir exists
    result,              \* how the last cycle returned: "Ok", an error, or
                         \* "Pending" while no cycle has returned since poll
    steps,               \* requests and commands the cycle has issued
    flag,                \* TRUE iff the notification key is in the store
    pending_writes,      \* write_kvp tasks spawned and not yet run
    pending_deletes,     \* delete_kvp tasks spawned and not yet run
    pending_reads,       \* read_kvp tasks spawned and not yet run
    pending_shows,       \* notify tasks that read "present", not resumed
    shown,               \* notifications shown so far
    op,                  \* the AutoUpdater method called last, "settings"
                         \* after the settings callback, "other" after a
                         \* step of a task
    retried,             \* TRUE iff that call was a poll() that found
                         \* status Errored and started a cycle
    notified             \* TRUE iff that operation called cx.notify()

updater == <<status, pending_poll, current_version>>

globals == <<RELEASE_CHANNEL, app_commit_sha>>

polling == <<auto_update, update_subscription>>

cycle == <<pc, response, should_download, temp_dir, result, steps>>

store == <<flag, pending_writes, pending_deletes>>

notifications == <<pending_reads, pending_shows, shown>>

vars == <<updater, globals, polling, cycle, store, notifications, op,
          retried, notified>>

\* The awaits of AutoUpdater::update, in order.
Awaits ==
    {"get_release", "read_body", "create_file", "get_artifact", "copy_body",
     "attach", "rsync", "detach"}

\* Positions of the task poll() spawns: not spawned, spawned and not yet
\* run, or suspended at an await.
Positions == {"none", "spawned"} \cup Awaits

PollTask == Some("task")

\* Errors a cycle can return.
FetchErrors == {"RequestError", "BodyReadError", "ParseError"}

Errors ==
    FetchErrors \cup
    {"VersionParseError", "TempDirError", "AppPathError", "FileCreateError",
     "DownloadError", "CopyBodyError", "MountSpawnError", "MountError",
     "InstallCopySpawnError", "InstallCopyError", "UnmountSpawnError",
     "UnmountError"}

NoResponse == Malformed

\* AutoUpdater::new, and init with ZED_APP_VERSION = Some(version): the
\* polling loop is spawned iff the setting is on.  AppCommitSha is read on
\* the Nightly channel only; on the other channels, where its value
\* changes nothing, it is taken as absent.
Init ==
    /\ status = "Idle"
    /\ pending_poll = None
    /\ current_version \in AppVersions
    /\ RELEASE_CHANNEL \in ReleaseChannel
    /\ app_commit_sha \in
           IF RELEASE_CHANNEL = "Nightly" THEN AppCommitShas ELSE {None}
    /\ auto_update \in BOOLEAN
    /\ update_subscription = IF auto_update THEN Some("Spawned") ELSE None
    /\ pc = "none"
    /\ response = NoResponse
    /\ should_download = FALSE
    /\ temp_dir = FALSE
    /\ result = "Pending"
    /\ steps = <<>>
    /\ flag \in BOOLEAN
    /\ pending_writes = 0
    /\ pending_deletes = 0
    /\ pending_reads = 0
    /\ pending_shows = 0
    /\ shown = 0
    /\ op = "other"
    /\ retried = FALSE
    /\ notified = FALSE

\* ------------------------------------------------------------------- poll
\* Faulty early return: a cycle in flight does not stop poll().
PollIgnoresPending(pending, st) == st = "Updated"

\* Faulty early return: status Updated does not stop poll().
PollIgnoresUpdated(pending, st) == pending # None

\* Faulty early return: status Errored stops poll() as Updated does.
PollStopsOnErrored(pending, st) ==
    pending # None \/ st \in {"Updated", "Errored"}

\* The early return of poll().
PollReturnsEarly(pending, st) == pending # None \/ st = "Updated"

\* AutoUpdater::poll: the body of one call.  Storing the new task drops
\* the task pending_poll held, and with it that task's TempDir.
poll ==
    IF PollReturnsEarly(pending_poll, status)
    THEN /\ notified' = FALSE
         /\ retried' = FALSE
         /\ UNCHANGED <<updater, cycle>>
    ELSE /\ status' = "Checking"
         /\ notified' = TRUE
         /\ retried' = (status = "Errored")
         /\ pending_poll' = PollTask
         /\ pc' = "spawned"
         /\ response' = NoResponse
         /\ should_download' = FALSE
         /\ result' = "Pending"
         /\ steps' = <<>>
         /\ temp_dir' = FALSE
         /\ UNCHANGED current_version

\* check: the manual Check action.
Check ==
    /\ poll
    /\ op' = "check"
    /\ UNCHANGED <<globals, polling, store, notifications>>

\* One iteration of start_polling's loop: poll, then wait for the timer.
StartPollingLoop ==
    /\ update_subscription # None
    /\ poll
    /\ update_subscription' = Some("Sleeping")
    /\ op' = "start_polling"
    /\ UNCHANGED <<auto_update, globals, store, notifications>>

\* AutoUpdater::dismiss_error.
dismiss_error ==
    /\ status' = "Idle"
    /\ notified' = TRUE
    /\ op' = "dismiss_error"
    /\ retried' = FALSE
    /\ UNCHANGED <<pending_poll, current_version, globals, polling, cycle,
                   store, notifications>>

\* Faulty callback: turning the setting off also drops the cycle in
\* flight.
ObserveSettingsCancelsCycle(enabled) ==
    /\ auto_update' = enabled
    /\ update_subscription' =
           IF enabled
           THEN IF update_subscription = None THEN Some("Spawned")
                ELSE update_subscription
           ELSE None
    /\ pending_poll' = IF enabled THEN pending_poll ELSE None
    /\ pc' = IF enabled THEN pc ELSE "none"
    /\ temp_dir' = IF enabled THEN temp_dir ELSE FALSE
    /\ op' = "settings"
    /\ retried' = FALSE
    /\ notified' = FALSE
    /\ UNCHANGED <<status, current_version, response, should_download,
                   result, steps, globals, store, notifications>>

\* Faulty callback: start_polling is called whenever the setting is on.
ObserveSettingsAlwaysStarts(enabled) ==
    /\ auto_update' = enabled
    /\ update_subscription' = IF enabled THEN Some("Spawned") ELSE None
    /\ op' = "settings"
    /\ retried' = FALSE
    /\ notified' = FALSE
    /\ UNCHANGED <<updater, globals, cycle, store, notifications>>

\* The observe_global::<SettingsStore> callback of init, run when the
\* settings change to auto_update = enabled.
ObserveSettings(enabled) ==
    /\ auto_update' = enabled
    /\ update_subscription' =
           IF enabled
           THEN IF update_subscription = None THEN Some("Spawned")
                ELSE update_subscription
           ELSE None
    /\ op' = "settings"
    /\ retried' = FALSE
    /\ notified' = FALSE
    /\ UNCHANGED <<updater, globals, cycle, store, notifications>>

\* ------------------------------------------------------ the update cycle
\* What a Command's output().await gives: Err, or an exit status.
CommandOutcomes == {"Err", "ExitZero", "ExitNonZero"}

\* How TempDir::new and the lookup of the running app's path turn out.
SetupOutcomes == {"Ok", "TempDirError", "AppPathError"}

\* Faulty check: the exit status of a command is not looked at.
SuccessUnchecked(outcome) == TRUE

\* output.status.success()
Success(outcome) == outcome = "ExitZero"

\* Faulty decision: an unknown commit identifier counts as "same".
ShouldDownloadUnlessUnknown(channel, sha, version, current) ==
    IF channel = "Nightly"
    THEN IF sha = None THEN FALSE ELSE version # sha[1]
    ELSE VersionLessOrEqual(ParseSemanticVersion(version), current)

\* The match on RELEASE_CHANNEL that sets should_download, for a version
\* that parses where it must.
ShouldDownload(channel, sha, version, current) ==
    IF channel = "Nightly"
    THEN IF sha = None THEN TRUE ELSE version # sha[1]
    ELSE VersionLessOrEqual(ParseSemanticVersion(version), current)

\* The ? on release.version.parse::<SemanticVersion>().
VersionParseFails(channel, version) ==
    channel # "Nightly" /\ ~ParsesAsSemanticVersion(version)

\* Faulty handler: an Err of update does not become Errored.
StatusAfterIgnoringErr(res, st) == st

\* The status the task spawned by poll() leaves once update returned res,
\* update having left status st.
StatusAfter(res, st) == IF res # "Ok" THEN "Errored" ELSE st

\* update sets status st (notifying iff n) and suspends at the await next.
Suspend(next, st, n) ==
    /\ pc' = next
    /\ status' = st
    /\ notified' = n
    /\ UNCHANGED <<pending_poll, current_version, result>>

\* Faulty return: the handler sets Errored without cx.notify().
ReturnSilently(res, st, n) ==
    /\ pc' = "none"
    /\ pending_poll' = None
    /\ status' = StatusAfter(res, st)
    /\ notified' = n
    /\ result' = res
    /\ temp_dir' = FALSE
    /\ UNCHANGED current_version

\* Faulty return: the TempDir is kept (as after into_path()).
ReturnKeepsTempDir(res, st, n) ==
    /\ pc' = "none"
    /\ pending_poll' = None
    /\ status' = StatusAfter(res, st)
    /\ notified' = (n \/ res # "Ok")
    /\ result' = res
    /\ UNCHANGED <<temp_dir, current_version>>

\* update sets status st (notifying iff n) and returns res; its TempDir
\* is dropped; the task spawned by poll() clears pending_poll and turns
\* an Err into Errored.
Return(res, st, n) ==
    /\ pc' = "none"
    /\ pending_poll' = None
    /\ status' = StatusAfter(res, st)
    /\ notified' = (n \/ res # "Ok")
    /\ result' = res
    /\ temp_dir' = FALSE
    /\ UNCHANGED current_version

\* The task starts: update builds the URL and issues the release request.
UpdateStart ==
    /\ pc = "spawned"
    /\ steps' = Append(steps, "fetch")
    /\ Suspend("get_release", status, FALSE)
    /\ op' = "other"
    /\ retried' = FALSE
    /\ UNCHANGED <<response, should_download, temp_dir, globals, polling,
                   store, notifications>>

\* client.get(&url_string, ..).await? resolves.
GetRelease(ok, body) ==
    /\ pc = "get_release"
    /\ IF ok
       THEN /\ response' = body
            /\ Suspend("read_body", status, FALSE)
            /\ UNCHANGED temp_dir
       ELSE /\ Return("RequestError", status, FALSE)
            /\ UNCHANGED response
    /\ op' = "other"
    /\ retried' = FALSE
    /\ UNCHANGED <<should_download, steps, globals, polling, store,
                   notifications>>

\* Faulty decision step: the "not newer" branch returns without setting
\* status.
DecideWithoutIdle(setup) ==
    /\ should_download' =
           ShouldDownload(RELEASE_CHANNEL, app_commit_sha, response.version,
                          current_version)
    /\ steps' = Append(steps, "decide")
    /\ IF ~should_download'
       THEN Return("Ok", status, FALSE)
       ELSE IF setup # "Ok"
       THEN Return(setup, "Downloading", TRUE)
       ELSE /\ temp_dir' = TRUE
            /\ Suspend("create_file", "Downloading", TRUE)

\* Faulty decision step: the return of the "not newer" branch is missing.
DecideWithoutReturn(setup) ==
    /\ should_download' =
           ShouldDownload(RELEASE_CHANNEL, app_commit_sha, response.version,
                          current_version)
    /\ steps' = Append(steps, "decide")
    /\ IF setup # "Ok"
       THEN Return(setup, "Downloading", TRUE)
       ELSE /\ temp_dir' = TRUE
            /\ Suspend("create_file", "Downloading", TRUE)

\* From the match that sets should_download to the await on File::create:
\* not to download, update sets Idle and returns Ok; to download, it sets
\* Downloading and sets up the TempDir and the paths.  setup is how
\* TempDir::new and the app path turn out.
Decide(setup) ==
    /\ should_download' =
           ShouldDownload(RELEASE_CHANNEL, app_commit_sha, response.version,
                          current_version)
    /\ steps' = Append(steps, "decide")
    /\ IF ~should_download'
       THEN Return("Ok", "Idle", TRUE)
       ELSE IF setup # "Ok"
       THEN Return(setup, "Downloading", TRUE)
       ELSE /\ temp_dir' = TRUE
            /\ Suspend("create_file", "Downloading", TRUE)

\* read_to_end(..).await resolves; then the descriptor is deserialized
\* and the version decided.
ReadBody(read_ok, setup) ==
    /\ pc = "read_body"
    /\ response' = NoResponse
    /\ IF ~read_ok
       THEN /\ Return("BodyReadError", status, FALSE)
            /\ UNCHANGED <<should_download, steps>>
       ELSE IF ~response.valid
       THEN /\ Return("ParseError", status, FALSE)
            /\ UNCHANGED <<should_download, steps>>
       ELSE IF VersionParseFails(RELEASE_CHANNEL, response.version)
       THEN /\ Return("VersionParseError", status, FALSE)
            /\ UNCHANGED <<should_download, steps>>
       ELSE Decide(setup)
    /\ op' = "other"
    /\ retried' = FALSE
    /\ UNCHANGED <<globals, polling, store, notifications>>

\* File::create(&dmg_path).await? resolves; then the artifact is requested.
CreateFile(ok) ==
    /\ pc = "create_file"
    /\ IF ok
       THEN /\ steps' = Append(steps, "download")
            /\ Suspend("get_artifact", status, FALSE)
            /\ UNCHANGED temp_dir
       ELSE /\ Return("FileCreateError", status, FALSE)
            /\ UNCHANGED steps
    /\ op' = "other"
    /\ retried' = FALSE
    /\ UNCHANGED <<response, should_download, globals, polling, store,
                   notifications>>

\* client.get(&release.url, ..).await? resolves.
GetArtifact(ok) ==
    /\ pc = "get_artifact"
    /\ IF ok
       THEN /\ Suspend("copy_body", status, FALSE)
            /\ UNCHANGED temp_dir
       ELSE Return("DownloadError", status, FALSE)
    /\ op' = "other"
    /\ retried' = FALSE
    /\ UNCHANGED <<response, should_download, steps, globals, polling,
                   store, notifications>>

\* Faulty copy step: the result of smol::io::copy is not looked at.
CopyBodyUnchecked(ok) ==
    /\ pc = "copy_body"
    /\ steps' = Append(steps, "mount")
    /\ Suspend("attach", "Installing", TRUE)
    /\ op' = "other"
    /\ retried' = FALSE
    /\ UNCHANGED <<temp_dir, response, should_download, globals, polling,
                   store, notifications>>

\* smol::io::copy(..).await? resolves; then status becomes Installing and
\* hdiutil attach is run.
CopyBody(ok) ==
    /\ pc = "copy_body"
    /\ IF ok
       THEN /\ steps' = Append(steps, "mount")
            /\ Suspend("attach", "Installing", TRUE)
            /\ UNCHANGED temp_dir
       ELSE /\ Return("CopyBodyError", status, FALSE)
            /\ UNCHANGED steps
    /\ op' = "other"
    /\ retried' = FALSE
    /\ UNCHANGED <<response, should_download, globals, polling, store,
                   notifications>>

\* hdiutil attach resolves; then rsync is run.
Attach(outcome) ==
    /\ pc = "attach"
    /\ IF outcome = "Err"
       THEN /\ Return("MountSpawnError", status, FALSE)
            /\ UNCHANGED steps
       ELSE IF ~Success(outcome)
       THEN /\ Return("MountError", status, FALSE)
            /\ UNCHANGED steps
       ELSE /\ steps' = Append(steps, "copy")
            /\ Suspend("rsync", status, FALSE)
            /\ UNCHANGED temp_dir
    /\ op' = "other"
    /\ retried' = FALSE
    /\ UNCHANGED <<response, should_download, globals, polling, store,
                   notifications>>

\* rsync resolves; then hdiutil detach is run.
Rsync(outcome) ==
    /\ pc = "rsync"
    /\ IF outcome = "Err"
       THEN /\ Return("InstallCopySpawnError", status, FALSE)
            /\ UNCHANGED steps
       ELSE IF ~Success(outcome)
       THEN /\ Return("InstallCopyError", status, FALSE)
            /\ UNCHANGED steps
       ELSE /\ steps' = Append(steps, "unmount")
            /\ Suspend("detach", status, FALSE)
            /\ UNCHANGED temp_dir
    /\ op' = "other"
    /\ retried' = FALSE
    /\ UNCHANGED <<response, should_download, globals, polling, store,
                   notifications>>

\* Faulty last step: the exit status of hdiutil detach is not looked at.
DetachIgnoresExit(outcome) ==
    /\ pc = "detach"
    /\ IF outcome = "Err"
       THEN /\ Return("UnmountSpawnError", status, FALSE)
            /\ UNCHANGED <<steps, pending_writes>>
       ELSE /\ pending_writes < MaxPendingWrites
            /\ pending_writes' = pending_writes + 1
            /\ steps' = Append(steps, "flag_write")
            /\ Return("Ok", "Updated", TRUE)
    /\ op' = "other"
    /\ retried' = FALSE
    /\ UNCHANGED <<response, should_download, flag, pending_deletes, globals,
                   polling, notifications>>

\* Faulty last step: status becomes Updated but no flag write is spawned.
DetachWithoutFlagWrite(outcome) ==
    /\ pc = "detach"
    /\ IF outcome = "Err"
       THEN Return("UnmountSpawnError", status, FALSE)
       ELSE IF ~Success(outcome)
       THEN Return("UnmountError", status, FALSE)
       ELSE Return("Ok", "Updated", TRUE)
    /\ op' = "other"
    /\ retried' = FALSE
    /\ UNCHANGED <<response, should_download, steps, store, globals,
                   polling, notifications>>

\* hdiutil detach resolves; then the flag write is spawned and status
\* becomes Updated.
Detach(outcome) ==
    /\ pc = "detach"
    /\ IF outcome = "Err"
       THEN /\ Return("UnmountSpawnError", status, FALSE)
            /\ UNCHANGED <<steps, pending_writes>>
       ELSE IF ~Success(outcome)
       THEN /\ Return("UnmountError", status, FALSE)
            /\ UNCHANGED <<steps, pending_writes>>
       ELSE /\ pending_writes < MaxPendingWrites
            /\ pending_writes' = pending_writes + 1
            /\ steps' = Append(steps, "flag_write")
            /\ Return("Ok", "Updated", TRUE)
    /\ op' = "other"
    /\ retried' = FALSE
    /\ UNCHANGED <<response, should_download, flag, pending_deletes, globals,
                   polling, notifications>>

\* ------------------------------------------------- the notification flag
\* Faulty flag write: its failure is reported as the updater's status.
WriteKvpPropagatesErr(ok) ==
    /\ pending_writes > 0
    /\ pending_writes' = pending_writes - 1
    /\ flag' = IF ok THEN TRUE ELSE flag
    /\ status' = IF ok THEN status ELSE "Errored"
    /\ op' = "other"
    /\ retried' = FALSE
    /\ notified' = ~ok
    /\ UNCHANGED <<pending_poll, current_version, globals, polling, cycle,
                   pending_deletes, notifications>>

\* The background task of set_should_show_update_notification(true) runs.
WriteKvp(ok) ==
    /\ pending_writes > 0
    /\ pending_writes' = pending_writes - 1
    /\ flag' = IF ok THEN TRUE ELSE flag
    /\ op' = "other"
    /\ retried' = FALSE
    /\ notified' = FALSE
    /\ UNCHANGED <<updater, globals, polling, cycle, pending_deletes,
                   notifications>>

\* The background task of set_should_show_update_notification(false) runs.
DeleteKvp(ok) ==
    /\ pending_deletes > 0
    /\ pending_deletes' = pending_deletes - 1
    /\ flag' = IF ok THEN FALSE ELSE flag
    /\ op' = "other"
    /\ retried' = FALSE
    /\ notified' = FALSE
    /\ UNCHANGED <<updater, globals, polling, cycle, pending_writes,
                   notifications>>

\* notify_of_any_new_update, up to its spawn: the read task is spawned.
NotifyOfAnyNewUpdate ==
    /\ pending_reads + pending_shows + shown < MaxWorkspaces
    /\ pending_reads' = pending_reads + 1
    /\ op' = "other"
    /\ retried' = FALSE
    /\ notified' = FALSE
    /\ UNCHANGED <<updater, globals, polling, cycle, store, pending_shows,
                   shown>>

\* The background task of should_show_update_notification runs.
ReadKvp(ok) ==
    /\ pending_reads > 0
    /\ pending_reads' = pending_reads - 1
    /\ pending_shows' = IF ok /\ flag THEN pending_shows + 1 ELSE pending_shows
    /\ op' = "other"
    /\ retried' = FALSE
    /\ notified' = FALSE
    /\ UNCHANGED <<updater, globals, polling, cycle, store, shown>>

\* The task spawned by notify_of_any_new_update resumes with "present":
\* it shows the notification and spawns the delete.
ShowNotification ==
    /\ pending_shows > 0
    /\ pending_shows' = pending_shows - 1
    /\ shown' = shown + 1
    /\ pending_deletes' = pending_deletes + 1
    /\ op' = "other"
    /\ retried' = FALSE
    /\ notified' = FALSE
    /\ UNCHANGED <<updater, globals, polling, cycle, flag, pending_writes,
                   pending_reads>>

\* ---------------------------------------------------------- specification
\* A session that starts with the flag left by the install of an earlier
\* session.
InitFlagWritten == Init /\ flag

\* The steps of a session in which no install succeeds: the detach never
\* exits zero, so update never reaches its flag write.
NextWithoutInstall ==
    \/ Check
    \/ StartPollingLoop
    \/ dismiss_error
    \/ \E enabled \in BOOLEAN : ObserveSettings(enabled)
    \/ UpdateStart
    \/ \E ok \in BOOLEAN, body \in Bodies : GetRelease(ok, body)
    \/ \E read_ok \in BOOLEAN, setup \in SetupOutcomes :
           ReadBody(read_ok, setup)
    \/ \E ok \in BOOLEAN : CreateFile(ok)
    \/ \E ok \in BOOLEAN : GetArtifact(ok)
    \/ \E ok \in BOOLEAN : CopyBody(ok)
    \/ \E outcome \in CommandOutcomes : Attach(outcome)
    \/ \E outcome \in CommandOutcomes : Rsync(outcome)
    \/ \E outcome \in CommandOutcomes \ {"ExitZero"} : Detach(outcome)
    \/ \E ok \in BOOLEAN : DeleteKvp(ok)
    \/ NotifyOfAnyNewUpdate
    \/ \E ok \in BOOLEAN : ReadKvp(ok)
    \/ ShowNotification

\* The session after one successful install.
SpecAfterInstall == InitFlagWritten /\ [][NextWithoutInstall]_vars

Next ==
    \/ Check
    \/ StartPollingLoop
    \/ dismiss_error
    \/ \E enabled \in BOOLEAN : ObserveSettings(enabled)
    \/ UpdateStart
    \/ \E ok \in BOOLEAN, body \in Bodies : GetRelease(ok, body)
    \/ \E read_ok \in BOOLEAN, setup \in SetupOutcomes :
           ReadBody(read_ok, setup)
    \/ \E ok \in BOOLEAN : CreateFile(ok)
    \/ \E ok \in BOOLEAN : GetArtifact(ok)
    \/ \E ok \in BOOLEAN : CopyBody(ok)
    \/ \E outcome \in CommandOutcomes : Attach(outcome)
    \/ \E outcome \in CommandOutcomes : Rsync(outcome)
    \/ \E outcome \in CommandOutcomes : Detach(outcome)
    \/ \E ok \in BOOLEAN : WriteKvp(ok)
    \/ \E ok \in BOOLEAN : DeleteKvp(ok)
    \/ NotifyOfAnyNewUpdate
    \/ \E ok \in BOOLEAN : ReadKvp(ok)
    \/ ShowNotification

Spec == Init /\ [][Next]_vars

TypeOK ==
    /\ status \in AutoUpdateStatus
    /\ pending_poll \in {None, PollTask}
    /\ current_version \in AppVersions
    /\ RELEASE_CHANNEL \in ReleaseChannel
    /\ app_commit_sha \in AppCommitShas
    /\ auto_update \in BOOLEAN
    /\ update_subscription \in {None, Some("Spawned"), Some("Sleeping")}
    /\ pc \in Positions
    /\ response \in Bodies
    /\ should_download \in BOOLEAN
    /\ temp_dir \in BOOLEAN
    /\ result \in {"Pending", "Ok"} \cup Errors
    /\ flag \in BOOLEAN
    /\ pending_writes \in 0..MaxPendingWrites
    /\ pending_deletes \in 0..MaxWorkspaces
    /\ pending_reads \in 0..MaxWorkspaces
    /\ pending_shows \in 0..MaxWorkspaces
    /\ shown \in 0..MaxWorkspaces
    /\ op \in {"check", "start_polling", "dismiss_error", "settings", "other"}
    /\ retried \in BOOLEAN
    /\ notified \in BOOLEAN

\* ------------------------------------------------------------ properties
\* A call of poll(), from the Check action or from the polling loop.
PollCalled == op' \in {"check", "start_polling"}

\* The step in which update decides whether to download.
Decides == pc = "read_body" /\ steps' = Append(steps, "decide")

\* C1: at most one update cycle is in flight: the task of a cycle exists
\* exactly while pending_poll is set, and a poll() issued while
\* pending_poll is set launches nothing and changes neither status nor
\* pending_poll nor the cycle in flight.
C1_AtMostOneCycleInFlight ==
    /\ [](pending_poll = None <=> pc = "none")
    /\ [][(PollCalled /\ pending_poll # None) =>
              (UNCHANGED <<status, pending_poll, cycle>> /\ ~notified')]_vars

\* A second poll() has just returned while the first call's cycle is
\* downloading.
C1_Witness ==
    /\ op = "check"
    /\ pending_poll # None
    /\ pc = "get_artifact"
    /\ status = "Downloading"

\* C2: on every channel but Nightly the cycle decides to download iff the
\* descriptor version is strictly greater than the running version.
C2_NewerIffStrictlyGreater ==
    [][(Decides /\ RELEASE_CHANNEL # "Nightly") =>
           (should_download' <=>
                VersionLess(current_version,
                            ParseSemanticVersion(response.version)))]_vars

\* C3: on Nightly the cycle decides to download iff the descriptor's
\* version string differs from the known commit identifier, always when
\* the identifier is unknown, and every descriptor that deserializes is
\* decided: its version is never parsed as a semantic version.
C3_NightlyComparesCommit ==
    [][(pc = "read_body" /\ pc' # "read_body" /\ RELEASE_CHANNEL = "Nightly") =>
           /\ result' # "VersionParseError"
           /\ (response.valid /\ result' # "BodyReadError") => Decides
           /\ Decides =>
                  (should_download' <=>
                       IF app_commit_sha = None THEN TRUE
                       ELSE response.version # app_commit_sha[1])]_vars

\* A Nightly cycle found the descriptor's version equal to the running
\* commit, a string that is no semantic version, and did not download.
C3_Witness ==
    /\ RELEASE_CHANNEL = "Nightly"
    /\ app_commit_sha = Some(ShaA)
    /\ steps = <<"fetch", "decide">>
    /\ ~should_download
    /\ result = "Ok"

\* C4: poll() called while status is Updated is a no-op: status stays
\* Updated, pending_poll stays unset, nothing is fetched and observers are
\* not notified.
C4_PollWhileUpdatedIsNoOp ==
    /\ [](status = "Updated" => pending_poll = None)
    /\ [][(PollCalled /\ status = "Updated") =>
              (UNCHANGED <<status, pending_poll, cycle>> /\ ~notified')]_vars

\* The polling loop has just called poll() with status Updated.
C4_Witness ==
    /\ op = "start_polling"
    /\ status = "Updated"
    /\ pending_poll = None
    /\ ~notified

\* C5: dismiss_error() sets status to Idle when it is Errored and leaves
\* any other status unchanged.
C5_DismissOnlyClearsErrored ==
    [][op' = "dismiss_error" =>
           status' = IF status = "Errored" THEN "Idle" ELSE status]_vars

\* C6: once status is Updated it stays Updated, and no further cycle is
\* started.
C6_UpdatedIsSticky ==
    [][status = "Updated" => (status' = "Updated" /\ pc' = "none")]_vars

\* Everything a cycle issues when it installs an update, in order.
FullPipeline ==
    <<"fetch", "decide", "download", "mount", "copy", "unmount",
      "flag_write">>

\* C7: a cycle that decides to download and whose steps succeed sets
\* status to Downloading, then Installing, then Updated; the step that
\* sets Updated is the one that requests the flag write, ends the cycle
\* with pending_poll cleared, and comes after every other step; a flag
\* write is requested by no other step, and when the write task runs and
\* succeeds the flag is present.
C7_SuccessfulInstallEndsUpdated ==
    [][/\ (Decides /\ pc' = "create_file") =>
              (should_download' /\ status' = "Downloading" /\ notified')
       /\ (pc = "copy_body" /\ pc' = "attach") =>
              (status' = "Installing" /\ notified')
       /\ (pc = "detach" /\ result' = "Ok") =>
              /\ status' = "Updated"
              /\ notified'
              /\ pending_poll' = None
              /\ pc' = "none"
              /\ steps' = FullPipeline
              /\ pending_writes' = pending_writes + 1
       /\ pending_writes' > pending_writes => (pc = "detach" /\ result' = "Ok")
       /\ WriteKvp(TRUE) => flag']_vars

\* A cycle has installed an update and its flag write has run.
C7_Witness ==
    /\ status = "Updated"
    /\ pending_poll = None
    /\ result = "Ok"
    /\ steps = FullPipeline
    /\ pending_writes = 0
    /\ flag

\* C8: a cycle that decides not to download ends at once with Ok, status
\* Idle and pending_poll cleared, having issued only the release fetch:
\* no download, no command, no flag write; and status is neither
\* Downloading nor Installing before a cycle has decided.
C8_NotNewerEndsIdle ==
    /\ [](pc \in {"spawned", "get_release", "read_body"} =>
              status \in {"Checking", "Idle"})
    /\ [][(Decides /\ ~should_download') =>
              /\ status' = "Idle"
              /\ pending_poll' = None
              /\ pc' = "none"
              /\ result' = "Ok"
              /\ steps' = <<"fetch", "decide">>
              /\ ~temp_dir'
              /\ UNCHANGED store]_vars

\* A Stable cycle has decided not to download and ended.
C8_Witness ==
    /\ RELEASE_CHANNEL = "Stable"
    /\ result = "Ok"
    /\ steps = <<"fetch", "decide">>
    /\ ~should_download
    /\ status = "Idle"
    /\ pending_poll = None

\* C9: a cycle whose release fetch fails (request, body read or
\* deserialization) ends with status Errored and pending_poll cleared,
\* having issued only the release fetch and leaving the store alone.
C9_FetchFailureEndsErrored ==
    [][(pc # "none" /\ result' \in FetchErrors) =>
           /\ pc \in {"get_release", "read_body"}
           /\ status' = "Errored"
           /\ notified'
           /\ pending_poll' = None
           /\ pc' = "none"
           /\ steps' = <<"fetch">>
           /\ ~temp_dir'
           /\ UNCHANGED store]_vars

\* A cycle has ended on a descriptor that does not deserialize.
C9_Witness ==
    /\ result = "ParseError"
    /\ status = "Errored"
    /\ pending_poll = None
    /\ steps = <<"fetch">>

\* C10: when hdiutil attach exits non-zero the cycle ends with status
\* Errored, rsync and hdiutil detach are not run, and the cycle has
\* neither written nor deleted the flag: no step of a cycle but its
\* successful last one touches the store.
C10_MountFailureEndsErrored ==
    [][/\ Attach("ExitNonZero") =>
              /\ status' = "Errored"
              /\ pending_poll' = None
              /\ pc' = "none"
              /\ steps' = <<"fetch", "decide", "download", "mount">>
              /\ UNCHANGED store
       /\ (pc # "none" /\ pc' # pc /\ ~(pc = "detach" /\ result' = "Ok")) =>
              UNCHANGED store]_vars

\* A cycle has ended because hdiutil attach exited non-zero.
C10_Witness ==
    /\ result = "MountError"
    /\ status = "Errored"
    /\ pending_poll = None
    /\ steps = <<"fetch", "decide", "download", "mount">>
    /\ ~temp_dir

\* The awaits of update at which its TempDir is alive.
InstallAwaits ==
    {"create_file", "get_artifact", "copy_body", "attach", "rsync", "detach"}

C12_ErroredPollsLikeIdle ==
    /\ [](status = "Errored" => pending_poll = None /\ pc = "none")
    /\ [][(PollCalled /\ status = "Errored")
          => /\ status' = "Checking"
             /\ notified'
             /\ pending_poll' = PollTask
             /\ pc' = "spawned"
             /\ result' = "Pending"
             /\ steps' = <<>>
             /\ ~temp_dir']_vars

\* A poll() has just started a cycle from status Errored.
C12_Witness ==
    /\ retried
    /\ op \in {"check", "start_polling"}
    /\ status = "Checking"
    /\ pending_poll = PollTask
    /\ pc = "spawned"

\* C13: the flag of one successful install makes the notification show
\* once: in a session that starts with the flag written and installs
\* nothing more, the calls of notify_of_any_new_update show at most one
\* notification between them.
C13_ShownOncePerInstall == shown <= 1

\* The settings observer has just run and found the setting at enabled.
SettingsObserved(enabled) == op' = "settings" /\ auto_update' = enabled

\* C14: update_subscription holds at most one polling loop, and holds one
\* exactly when the setting last observed is enabled.  Enabling with no
\* loop spawns one, whose first step is a poll(); enabling with a loop
\* leaves that loop as it is; disabling drops the loop.
C14_OneLoopIffEnabled ==
    /\ [](update_subscription # None <=> auto_update)
    /\ [][/\ (SettingsObserved(TRUE) /\ update_subscription = None)
             => update_subscription' = Some("Spawned")
          /\ (SettingsObserved(TRUE) /\ update_subscription # None)
             => UNCHANGED update_subscription
          /\ SettingsObserved(FALSE) => update_subscription' = None
          /\ (update_subscription = Some("Spawned")
              /\ update_subscription' \notin {None, Some("Spawned")})
             => op' = "start_polling"
          /\ op' = "start_polling" => update_subscription # None]_vars

\* The setting was observed enabled while the loop was sleeping between
\* two polls, and the loop is still that one.
C14_Witness ==
    /\ op = "settings"
    /\ auto_update
    /\ update_subscription = Some("Sleeping")

\* How many steps of the pipeline a cycle suspended at an await has
\* started.
StepsStartedAt ==
    [p \in Positions \ {"none"} |->
        CASE p = "spawned" -> 0
          [] p \in {"get_release", "read_body"} -> 1
          [] p = "create_file" -> 2
          [] p \in {"get_artifact", "copy_body"} -> 3
          [] p = "attach" -> 4
          [] p = "rsync" -> 5
          [] p = "detach" -> 6]

\* The await whose successful completion comes right before each step.
AwaitBefore ==
    <<"spawned", "read_body", "create_file", "copy_body", "attach", "rsync",
      "detach">>

\* C15: the steps a cycle has started are always the first few of fetch,
\* decide, download, mount, copy, unmount, flag write, in that order; a
\* step is started only by the successful completion of the await that
\* ends the step before it, one step at a time; and a failed await ends
\* the cycle without starting anything.
C15_StepsStrictlySequential ==
    /\ [](/\ Len(steps) <= Len(FullPipeline)
          /\ steps = SubSeq(FullPipeline, 1, Len(steps))
          /\ pc # "none" => Len(steps) = StepsStartedAt[pc])
    /\ [][/\ steps' # steps
             => \/ PollCalled /\ steps' = <<>>
                \/ /\ Len(steps') = Len(steps) + 1
                   /\ pc = AwaitBefore[Len(steps')]
          /\ (\/ GetRelease(FALSE, NoResponse)
              \/ \E setup \in SetupOutcomes : ReadBody(FALSE, setup)
              \/ CreateFile(FALSE)
              \/ GetArtifact(FALSE)
              \/ CopyBody(FALSE)
              \/ \E outcome \in CommandOutcomes \ {"ExitZero"} :
                     Attach(outcome) \/ Rsync(outcome) \/ Detach(outcome))
             => steps' = steps /\ pc' = "none" /\ status' = "Errored"]_vars

\* A cycle has stopped at the failed copy of the artifact's body: fetch,
\* decision and download were started, the mount was not.
C15_Witness ==
    /\ pc = "none"
    /\ result = "CopyBodyError"
    /\ steps = <<"fetch", "decide", "download">>
    /\ status = "Errored"

\* C16: when hdiutil detach exits non-zero, the cycle ends there with
\* UnmountError: status becomes Errored, the in-flight handle is cleared
\* and no flag write is requested.  Status becomes Updated only in the
\* step that completes the detach of a cycle that went through the whole
\* pipeline, the copy and the unmount included.
C16_UnmountErrorBeforeUpdated ==
    [][/\ Detach("ExitNonZero")
          => /\ status' = "Errored"
             /\ result' = "UnmountError"
             /\ pending_poll' = None
             /\ pc' = "none"
             /\ steps' = steps
             /\ UNCHANGED store
       /\ (status' = "Updated" /\ status # "Updated")
          => /\ pc = "detach"
             /\ steps = <<"fetch", "decide", "download", "mount", "copy",
                          "unmount">>
             /\ steps' = FullPipeline
             /\ result' = "Ok"
             /\ pending_writes' = pending_writes + 1]_vars

\* A cycle has ended in Errored on a non-zero exit of the detach, after
\* a successful copy, with no flag write requested.
C16_Witness ==
    /\ result = "UnmountError"
    /\ status = "Errored"
    /\ pending_poll = None
    /\ steps = <<"fetch", "decide", "download", "mount", "copy", "unmount">>
    /\ pending_writes = 0

\* C17: a failed write, delete or read of the notification flag changes
\* nothing of the updater or of its cycle and notifies nobody; status
\* becomes Errored only in the step in which a cycle returns one of
\* update's own errors, so a cycle that installed stays Updated when its
\* flag write fails.
C17_FlagFailuresLeaveStatus ==
    [][/\ (WriteKvp(FALSE) \/ DeleteKvp(FALSE) \/ ReadKvp(FALSE))
          => UNCHANGED <<updater, cycle>> /\ ~notified'
       /\ (status' = "Errored" /\ status # "Errored")
          => pc # "none" /\ pc' = "none" /\ result' \in Errors]_vars

\* A cycle installed and ended in Updated with the handle cleared; its
\* flag write has run and failed, the flag having been absent before.
C17_Witness ==
    /\ status = "Updated"
    /\ pending_poll = None
    /\ result = "Ok"
    /\ steps = FullPipeline
    /\ ~flag
    /\ pending_writes = 0
    /\ pending_deletes = 0
    /\ pending_shows = 0
    /\ shown = 0

\* One step of the cycle in flight.
CycleStep ==
    \/ UpdateStart
    \/ \E ok \in BOOLEAN, body \in Bodies : GetRelease(ok, body)
    \/ \E read_ok \in BOOLEAN, setup \in SetupOutcomes :
           ReadBody(read_ok, setup)
    \/ \E ok \in BOOLEAN : CreateFile(ok)
    \/ \E ok \in BOOLEAN : GetArtifact(ok)
    \/ \E ok \in BOOLEAN : CopyBody(ok)
    \/ \E outcome \in CommandOutcomes : Attach(outcome)
    \/ \E outcome \in CommandOutcomes : Rsync(outcome)
    \/ \E outcome \in CommandOutcomes : Detach(outcome)

\* C18: observing the setting turned off drops the polling loop and
\* leaves the updater and the cycle in flight exactly as they were; with
\* the loop stopped the cycle can still take its next step, and when it
\* returns its resting status is recorded and the handle cleared; the
\* loop polls no more.
C18_StoppingLoopKeepsCycle ==
    /\ []((update_subscription = None /\ pc # "none") => ENABLED CycleStep)
    /\ [][/\ SettingsObserved(FALSE)
             => update_subscription' = None /\ UNCHANGED <<updater, cycle>>
          /\ (update_subscription = None /\ pc # "none" /\ pc' = "none")
             => /\ pending_poll' = None
                /\ status' \in {"Idle", "Updated", "Errored"}
                /\ result' \in Errors \cup {"Ok"}
          /\ update_subscription = None => op' # "start_polling"]_vars

\* The setting has just been observed off while a cycle was waiting for
\* rsync: the loop is gone, the cycle is still in flight.
C18_Witness ==
    /\ op = "settings"
    /\ ~auto_update
    /\ update_subscription = None
    /\ pc = "rsync"
    /\ pending_poll = PollTask
    /\ status = "Installing"

\* C19: every step that changes the value of status, whether taken by
\* poll(), by the cycle, by the cycle's error handler or by
\* dismiss_error(), fires a notification in that same step.
C19_StatusChangeNotifies == [][status' # status => notified']_vars

\* The error handler has just turned Installing into Errored on a failed
\* mount, and notified.
C19_Witness ==
    /\ notified
    /\ op = "other"
    /\ status = "Errored"
    /\ result = "MountError"
    /\ pc = "none"

\* C20: whenever no cycle is in flight, status is Idle, Updated or
\* Errored: Checking, Downloading and Installing are only ever held while
\* pending_poll is set.
C20_TransientOnlyInFlight ==
    pending_poll = None => status \in {"Idle", "Updated", "Errored"}

\* A cycle that had reached Downloading has just returned an error of
\* setting up the download, and rests in Errored with the handle cleared.
C20_Witness ==
    /\ pending_poll = None
    /\ pc = "none"
    /\ result \in {"TempDirError", "AppPathError", "FileCreateError"}
    /\ steps = <<"fetch", "decide">>
    /\ should_download
    /\ notified
    /\ status = "Errored"

====
